---- MODULE Spec2Model ----
(***************************************************************************)
(* Model of the CSRD/DPEF report analyser.                                 *)
(*                                                                         *)
(*   src/src/report_analyzer.py  per-section analyser (environmental,      *)
(*                               social, governance) and its consolidation  *)
(*   src/app.py                  corpus loader, single-call analyser and    *)
(*                               the Streamlit page flow                    *)
(*                                                                         *)
(* Scores are fixed-point integers counted in hundredths (80.0 is 8000),   *)
(* weights in tenths (0.4 is 4), so a weighted score is counted in         *)
(* thousandths.  A Python dict is a function; "key in d" is membership in  *)
(* its DOMAIN.  A call that can raise returns Ok(v) or Raise(e).           *)
(***************************************************************************)
EXTENDS Integers, Sequences, FiniteSets, TLC

VARIABLES
    section_results,   \* harness: argument of _consolidate_results (ordered dict)
    consolidated,      \* harness: the dict _consolidate_results returned, or None
    enriched,          \* harness: outcome of _enrich_results on it, or None
    ra_self,           \* report_analyzer.py: the analyzer object's attributes
    ra_text,           \* report_analyzer.py: text given to analyze_report
    ra_stub,           \* what the completion service answers for each section
    ra_out,            \* None, or what analyze_report did: ret, calls, errors
    general_dir,       \* the directory data/csrd/general on disk
    load_out,          \* harness: None, or what load_csrd_documents did
    context_out,       \* harness: None, or a get_regulatory_context call on it
    app_text,          \* harness: text given to app.py's analyze_report
    app_regulation,    \* harness: csrd_regulation given to it
    app_response,      \* harness: what the completion service answers
    app_out,           \* None, or what analyze_report did: ret, calls, errors
    session_state,     \* st.session_state: a dict, empty in a new session
    company_name,      \* value of the text_input widget
    uploaded_file,     \* value of the file_uploader widget, or None
    page,              \* value of the navigation radio
    has_api_key,       \* "OPENAI_API_KEY" in st.secrets
    corpus_cache,      \* st.cache_data entry of load_csrd_documents
    phase,             \* where the script run of a launch stands
    run_text,          \* the launch's extracted text
    pending,           \* arguments of the analyze_report call in flight, or None
    displayed,         \* results and company shown by the last script run, or None
    alerts             \* the st.error messages of the last script run

consVars == <<section_results, consolidated, enriched>>
raVars   == <<ra_self, ra_text, ra_stub, ra_out>>
loadVars == <<general_dir, load_out, context_out>>
appVars  == <<app_text, app_regulation, app_response, app_out>>
uiVars   == <<session_state, company_name, uploaded_file, page, has_api_key,
              corpus_cache, phase, run_text, pending, displayed, alerts>>
vars     == <<consVars, raVars, loadVars, appVars, uiVars>>

\* Python's None, for the variables that hold a dict or None
None == [None |-> TRUE]

Ok(v)    == [ok |-> TRUE, val |-> v]
Raise(e) == [ok |-> FALSE, exc |-> e]

(***************************************************************************)
(* Python helpers                                                          *)
(***************************************************************************)
EmptyDict == [k \in {} |-> None]

\* dict.get(key, default)
Get(d, k, default) == IF k \in DOMAIN d THEN d[k] ELSE default

\* d[k] = v
Put(d, k, v) == (k :> v) @@ d

\* list.extend with the elements of every earlier occurrence dropped
extend_dedup(list, items) ==
    LET RECURSIVE go(_, _)
        go(acc, rest) ==
            IF rest = <<>> THEN acc
            ELSE IF \E i \in 1..Len(acc) : acc[i] = Head(rest)
                 THEN go(acc, Tail(rest))
                 ELSE go(Append(acc, Head(rest)), Tail(rest))
    IN go(list, items)

\* list.extend(items)
extend(list, items) == list \o items

(***************************************************************************)
(* report_analyzer.py : _consolidate_results                               *)
(***************************************************************************)
\* the sections analyze_report iterates over, in that order
sections == <<"environmental", "social", "governance">>


\* the weights dict, in tenths
weights == [environmental |-> 4, social |-> 3, governance |-> 3]

\* round() that drops the third decimal instead of rounding it
round2_truncate(total, tieUp) == total \div 10

\* round(total_score) with the number of digits forgotten
round0(total, tieUp) == ((total + 500) \div 1000) * 100

\* round(total_score, 2): thousandths to hundredths.  The nearest hundredth;
\* on a decimal tie the binary value of the float decides, so either
\* neighbour can come out (tieUp).
round2(total, tieUp) ==
    LET q == total \div 10
        r == total % 10
    IN  IF r < 5 THEN q
        ELSE IF r > 5 THEN q + 1
        ELSE IF tieUp THEN q + 1 ELSE q

EmptyCompliance ==
    [conforming |-> <<>>, non_conforming |-> <<>>, partially_conforming |-> <<>>]

\* one pass of the loop body for the item (section, results)
ConsolidateStep(acc, section, results) ==
    LET score          == Get(results, "score", 0)
        weight         == Get(weights, section, 0)
        weighted_score == score * weight
        comp           == Get(results, "compliance", EmptyDict)
        cs             == acc.compliance_summary
    IN  [ total_score    |-> acc.total_score + weighted_score,
          section_scores |-> Put(acc.section_scores, section,
                                 [score |-> score,
                                  weighted_score |-> weighted_score,
                                  weight |-> weight]),
          recommendations |->
              extend(acc.recommendations, Get(results, "recommendations", <<>>)),
          compliance_summary |->
              IF "compliance" \in DOMAIN results
              THEN [conforming |->
                        extend(cs.conforming, Get(comp, "conforming", <<>>)),
                    non_conforming |->
                        extend(cs.non_conforming, Get(comp, "non_conforming", <<>>)),
                    partially_conforming |->
                        extend(cs.partially_conforming,
                               Get(comp, "partially_conforming", <<>>))]
              ELSE cs ]

RECURSIVE ConsolidateLoop(_, _)
ConsolidateLoop(acc, items) ==
    IF items = <<>> THEN acc
    ELSE ConsolidateLoop(ConsolidateStep(acc, Head(items).section, Head(items).results),
                         Tail(items))

\* section_results is the ordered dict as a sequence of (section, results) items
_consolidate_results(sr, tieUp) ==
    LET acc == ConsolidateLoop([total_score |-> 0,
                                section_scores |-> EmptyDict,
                                recommendations |-> <<>>,
                                compliance_summary |-> EmptyCompliance], sr)
    IN  [ global_score       |-> round2(acc.total_score, tieUp),
          section_scores     |-> acc.section_scores,
          detailed_analysis  |-> sr,
          compliance_summary |-> acc.compliance_summary,
          key_findings       |-> <<>>,
          recommendations    |-> acc.recommendations ]

(***************************************************************************)
(* report_analyzer.py : _enrich_results, _generate_summary                 *)
(***************************************************************************)
\* the values the f-string interpolates; indexing section_scores by a section
\* that is not a key raises KeyError
_generate_summary(results) ==
    IF \E i \in 1..Len(sections) : sections[i] \notin DOMAIN results.section_scores
    THEN Raise("KeyError")
    ELSE Ok([ global_score  |-> results.global_score,
              environmental |-> results.section_scores["environmental"].score,
              social        |-> results.section_scores["social"].score,
              governance    |-> results.section_scores["governance"].score,
              non_conforming |-> Len(results.compliance_summary.non_conforming),
              partially_conforming |->
                  Len(results.compliance_summary.partially_conforming),
              recommendations |-> Len(results.recommendations) ])

\* results after the two assignments that precede the summary
EnrichHead(results, company_info) ==
    Put(Put(results, "metadata",
            [company_info |-> company_info, analysis_date |-> "now",
             esrs_version |-> "2024", analyzer_version |-> "2.0"]),
        "statistics",
            [total_conforming     |-> Len(results.compliance_summary.conforming),
             total_non_conforming |-> Len(results.compliance_summary.non_conforming),
             total_partial |-> Len(results.compliance_summary.partially_conforming),
             total_recommendations |-> Len(results.recommendations)])

\* Ok(the enriched dict) or the exception _generate_summary raised
_enrich_results(results, company_info) ==
    LET head == EnrichHead(results, company_info)
        summ == _generate_summary(head)
    IN  IF summ.ok THEN Ok(Put(head, "executive_summary", summ.val))
        ELSE summ

\* the fallback dict of report_analyzer.py
_get_demo_analysis ==
    [ global_score |-> 7550,
      section_scores |->
          [environmental |-> [score |-> 8000, weighted_score |-> 32000, weight |-> 4],
           social        |-> [score |-> 7000, weighted_score |-> 21000, weight |-> 3],
           governance    |-> [score |-> 7500, weighted_score |-> 22500, weight |-> 3]],
      compliance_summary |->
          [conforming |-> <<"ESRS E1.1", "ESRS S1.1">>,
           non_conforming |-> <<"ESRS E2.3">>,
           partially_conforming |-> <<"ESRS G1.2">>],
      recommendations |->
          <<"Renforcer le reporting sur les emissions scope 3",
            "Ameliorer la tracabilite des donnees sociales">>,
      metadata |-> [analysis_date |-> "now", esrs_version |-> "2024",
                    analyzer_version |-> "2.0"] ]

(***************************************************************************)
(* Inputs of the consolidation harness                                     *)
(***************************************************************************)
\* longest recommendation list a section result carries
MaxRecs == 2

RecPool == {"Improve traceability", "Report scope 3"}

RECURSIVE SeqsUpTo(_, _)
SeqsUpTo(S, n) ==
    IF n = 0 THEN {<<>>}
    ELSE LET shorter == SeqsUpTo(S, n - 1)
         IN  shorter \cup {Append(s, x) : s \in {t \in shorter : Len(t) = n - 1}, x \in S}

RecLists == SeqsUpTo(RecPool, MaxRecs)

\* scores in hundredths: the bounds of the range, the spec's examples, and
\* values with a second decimal
ScoreChoices == {0, 1, 5, 6000, 7000, 7500, 8000, 9000, 9999, 10000}

ComplianceChoices ==
    { [conforming |-> <<"ESRS E1.1">>, non_conforming |-> <<"ESRS E2.3">>,
       partially_conforming |-> <<>>],
      [non_conforming |-> <<"ESRS G1.2">>] }

\* a key of a JSON object that may be missing: the empty set is "no such key"
Field(k, opt) == IF opt = {} THEN EmptyDict ELSE (k :> (CHOOSE v \in opt : TRUE))

Optional(S) == {{}} \cup {{v} : v \in S}

\* section results in which only the score varies
ScoreResults == { Field("score", s) : s \in Optional(ScoreChoices) }

\* section results in which the lists vary
ListResults ==
    { ("score" :> 8000) @@ Field("recommendations", r) @@ Field("compliance", c) :
        r \in Optional(RecLists), c \in Optional(ComplianceChoices) }

\* ordered dicts over a subset of the sections, keys in analyze_report's order
RECURSIVE DictsOver(_, _)
DictsOver(keys, Values) ==
    IF keys = <<>> THEN {<<>>}
    ELSE LET rest == DictsOver(Tail(keys), Values)
         IN  rest \cup { <<[section |-> Head(keys), results |-> v]>> \o d :
                           v \in Values, d \in rest }

ConsolidationInputs == DictsOver(sections, ScoreResults) \cup DictsOver(sections, ListResults)

\* the company_info dict get_company_context builds for "ACME"
CompanyInfo == [name |-> "ACME", sector |-> "Non specifie", size |-> "Non specifiee"]

(***************************************************************************)
(* Harness: _consolidate_results, then _enrich_results, on every input     *)
(***************************************************************************)
\* the variables of the other parts, at rest
IdleCons == section_results = <<>> /\ consolidated = None /\ enriched = None
IdleRA   == ra_self = None /\ ra_text = <<>> /\ ra_stub = None /\ ra_out = None
IdleLoad ==
    general_dir = [state |-> "missing"] /\ load_out = None /\ context_out = None
IdleApp  ==
    app_text = <<>> /\ app_regulation = <<>> /\ app_response = None /\ app_out = None
IdleUI   ==
    /\ session_state = <<>> /\ company_name = "" /\ uploaded_file = None
    /\ page = "Analyse CSRD" /\ has_api_key = FALSE
    /\ corpus_cache = [loaded |-> FALSE]
    /\ phase = "idle" /\ run_text = None /\ pending = None /\ displayed = None
    /\ alerts = <<>>

InitCons ==
    /\ section_results \in ConsolidationInputs
    /\ consolidated = None
    /\ enriched = None
    /\ IdleRA /\ IdleLoad /\ IdleApp /\ IdleUI

CallConsolidate ==
    /\ consolidated = None
    /\ \E tieUp \in BOOLEAN :
          consolidated' = _consolidate_results(section_results, tieUp)
    /\ UNCHANGED <<section_results, enriched, raVars, loadVars, appVars, uiVars>>

\* _enrich_results assigns into the dict it was given, so the keys written
\* before an exception stay in it
CallEnrich ==
    /\ consolidated # None
    /\ enriched = None
    /\ LET r == _enrich_results(consolidated, CompanyInfo)
       IN  /\ enriched' = r
           /\ consolidated' = IF r.ok THEN r.val
                              ELSE EnrichHead(consolidated, CompanyInfo)
    /\ UNCHANGED <<section_results, raVars, loadVars, appVars, uiVars>>

NextCons == CallConsolidate \/ CallEnrich

SpecCons == InitCons /\ [][NextCons]_vars

(***************************************************************************)
(* Claims about the consolidation                                          *)
(***************************************************************************)
\* the results dict stored under a section, or the empty dict
ResultsOf(sr, s) ==
    IF \E i \in 1..Len(sr) : sr[i].section = s
    THEN sr[CHOOSE i \in 1..Len(sr) : sr[i].section = s].results
    ELSE EmptyDict

HasSection(sr, s) == \E i \in 1..Len(sr) : sr[i].section = s

ScoreOf(sr, s) == Get(ResultsOf(sr, s), "score", 0)

\* 0.4*environmental + 0.3*social + 0.3*governance, in thousandths, an absent
\* section or score counting as 0
FixedWeightSum(sr) ==
    4 * ScoreOf(sr, "environmental") + 3 * ScoreOf(sr, "social")
        + 3 * ScoreOf(sr, "governance")

AllScored(sr) ==
    \A i \in 1..Len(sections) :
        /\ HasSection(sr, sections[i])
        /\ "score" \in DOMAIN ResultsOf(sr, sections[i])

ScoresAre(sr, e, s, g) ==
    /\ AllScored(sr)
    /\ ScoreOf(sr, "environmental") = e
    /\ ScoreOf(sr, "social") = s
    /\ ScoreOf(sr, "governance") = g

\* C1 as stated: for every mapping that scores the three sections in [0,100],
\* global_score is exactly 0.4*environmental + 0.3*social + 0.3*governance and
\* lies in [0,100].
C1_ExactWeightedSum ==
    (consolidated # None /\ AllScored(section_results)) =>
        /\ consolidated.global_score * 10 = FixedWeightSum(section_results)
        /\ consolidated.global_score \in 0..10000

\* C1 amended: global_score is that weighted sum rounded to two decimals (at
\* most 0.005 away from it), is exactly the sum whenever the sum has no third
\* decimal (80/60/90 gives 77.0), and lies in [0,100].
C1_RoundedWeightedSum ==
    (consolidated # None /\ AllScored(section_results)) =>
        LET w == FixedWeightSum(section_results)
            g == consolidated.global_score
        IN  /\ g * 10 - w \in -5..5
            /\ (w % 10 = 0 => g * 10 = w)
            /\ g \in 0..10000

C1_Witness ==
    /\ consolidated # None
    /\ ScoresAre(section_results, 8000, 6000, 9000)
    /\ consolidated.global_score = 7700

\* C2 as stated: section scores 80, 70 and 75 under the weights 0.4, 0.3 and
\* 0.3 give the global score 76.5.
C2_Global765 ==
    (consolidated # None /\ ScoresAre(section_results, 8000, 7000, 7500)) =>
        consolidated.global_score = 7650

\* C2 amended: section scores 80, 70 and 75 under the weights 0.4, 0.3 and 0.3
\* give the global score 75.5, the value the demonstration analysis carries
\* for the same three scores.
C2_Global755 ==
    (consolidated # None /\ ScoresAre(section_results, 8000, 7000, 7500)) =>
        /\ consolidated.global_score = 7550
        /\ consolidated.global_score = _get_demo_analysis.global_score
        /\ \A i \in 1..Len(sections) :
              consolidated.section_scores[sections[i]] =
                  _get_demo_analysis.section_scores[sections[i]]

C2_Witness ==
    /\ consolidated # None
    /\ ScoresAre(section_results, 8000, 7000, 7500)
    /\ consolidated.global_score = 7550

RecsOf(sr, s) == Get(ResultsOf(sr, s), "recommendations", <<>>)

Occurrences(list, x) == Cardinality({i \in 1..Len(list) : list[i] = x})

\* C7: the consolidated recommendations are the per-section recommendation
\* lists concatenated in the order environmental, social, governance, with
\* duplicates kept, so the length is the sum of the per-section lengths.
C7_RecommendationsConcatenated ==
    consolidated # None =>
        /\ consolidated.recommendations =
               RecsOf(section_results, "environmental")
                   \o RecsOf(section_results, "social")
                   \o RecsOf(section_results, "governance")
        /\ Len(consolidated.recommendations) =
               Len(RecsOf(section_results, "environmental"))
                   + Len(RecsOf(section_results, "social"))
                   + Len(RecsOf(section_results, "governance"))
        /\ \A x \in RecPool :
              Occurrences(consolidated.recommendations, x) =
                  Occurrences(RecsOf(section_results, "environmental"), x)
                      + Occurrences(RecsOf(section_results, "social"), x)
                      + Occurrences(RecsOf(section_results, "governance"), x)

\* two sections give the same recommendation and the consolidated list has both
C7_Witness ==
    /\ consolidated # None
    /\ RecsOf(section_results, "environmental") = <<"Improve traceability">>
    /\ RecsOf(section_results, "social") = <<"Report scope 3", "Improve traceability">>
    /\ RecsOf(section_results, "governance") = <<>>
    /\ consolidated.recommendations =
           <<"Improve traceability", "Report scope 3", "Improve traceability">>

\* C8: with a configured section, or its score, absent from the section
\* results, consolidation (the merge and the enrichment that completes it) does
\* not raise, and the global score is the fixed-weight sum in which the absent
\* section counts as 0.
C8_AbsentSectionCountsZero ==
    (enriched # None /\ ~AllScored(section_results)) =>
        /\ enriched.ok
        /\ consolidated.global_score * 10 - FixedWeightSum(section_results) \in -5..5

(***************************************************************************)
(* report_analyzer.py : class CSRDReportAnalyzer                           *)
(***************************************************************************)
\* the object __init__ leaves behind when the API key is configured: client,
\* model and csrd_criteria are its only attributes
RA__init__ ==
    [client |-> "OpenAI", model |-> "gpt-4o-mini", csrd_criteria |-> EmptyDict]

\* a text is the sequence of its characters, numbered by position
MakeText(n) == [i \in 1..n |-> i]

\* the whole text, whatever n is
Prefix_uncapped(text, n) == text

\* text[:n]
Prefix(text, n) == SubSeq(text, 1, IF Len(text) < n THEN Len(text) ELSE n)

\* "\n\n---\n\n", one item of a text
separator == <<"---">>

\* separator.join(texts), a text being a sequence; the separator is one item
RECURSIVE Join(_)
Join(texts) ==
    IF texts = <<>> THEN <<>>
    ELSE IF Len(texts) = 1 THEN Head(texts)
    ELSE Head(texts) \o <<separator>> \o Join(Tail(texts))

\* dict.values() of an ordered dict kept as a sequence of (name, content) items
RECURSIVE Values(_)
Values(d) == IF d = <<>> THEN <<>> ELSE <<Head(d).content>> \o Values(Tail(d))

\* self.csrd_data is read before anything else; an object without that
\* attribute raises AttributeError
_get_section_context(self, section) ==
    IF "csrd_data" \notin DOMAIN self THEN Raise("AttributeError")
    ELSE IF self.csrd_data = None \/ self.csrd_data = EmptyDict THEN Ok(<<>>)
    ELSE Ok(Join(
            (IF "cross_cutting" \in DOMAIN self.csrd_data
             THEN Values(self.csrd_data["cross_cutting"]) ELSE <<>>)
            \o (IF section \in DOMAIN self.csrd_data
                THEN Values(self.csrd_data[section]) ELSE <<>>)))

\* the dict returned when the call or the parse fails
SectionPlaceholder(section) ==
    [ score |-> 0,
      evaluation |-> <<"Erreur d'analyse de la section", section>>,
      standards_analysis |-> EmptyDict,
      compliance |-> EmptyCompliance,
      recommendations |-> <<>> ]

\* the parts of the f-string prompt that depend on the arguments
SectionPrompt(section, company_info, regulatory_context, criteria, text) ==
    [ section |-> section, company_info |-> company_info,
      regulatory_context |-> Prefix(regulatory_context, 2000),
      criteria |-> criteria, text |-> Prefix(text, 8000) ]

\* ret: Ok(section result) or the exception that escapes; calls: the prompts
\* sent to the completion service; errors: the st.error messages.  The context
\* and the criteria are fetched before the try block.
_analyze_section(self, text, section, company_info, response) ==
    LET ctx == _get_section_context(self, section)
    IN  IF ~ctx.ok THEN [ret |-> ctx, calls |-> <<>>, errors |-> <<>>]
        ELSE IF "evaluation_criteria" \notin DOMAIN self
        THEN [ret |-> Raise("AttributeError"), calls |-> <<>>, errors |-> <<>>]
        ELSE IF section \notin DOMAIN self.evaluation_criteria
        THEN [ret |-> Raise("KeyError"), calls |-> <<>>, errors |-> <<>>]
        ELSE LET prompt == SectionPrompt(section, company_info, ctx.val,
                                         self.evaluation_criteria[section], text)
             IN  IF response.kind = "json"
                 THEN [ret |-> Ok(response.body), calls |-> <<prompt>>,
                       errors |-> <<>>]
                 ELSE [ret |-> Ok(SectionPlaceholder(section)),
                       calls |-> <<prompt>>,
                       errors |-> <<[in |-> "_analyze_section",
                                     section |-> section]>>]

\* the for loop of analyze_report: it stops at the first exception
RECURSIVE AnalyzeLoop(_, _, _, _, _, _)
AnalyzeLoop(self, text, company_info, stub, todo, acc) ==
    IF todo = <<>> \/ acc.exc # "" THEN acc
    ELSE LET section == Head(todo)
             r == _analyze_section(self, text, section, company_info, stub[section])
         IN  AnalyzeLoop(self, text, company_info, stub, Tail(todo),
                 [ results |-> IF r.ret.ok
                               THEN Append(acc.results,
                                           [section |-> section, results |-> r.ret.val])
                               ELSE acc.results,
                   calls   |-> acc.calls \o r.calls,
                   errors  |-> acc.errors \o r.errors,
                   exc     |-> IF r.ret.ok THEN "" ELSE r.ret.exc ])

\* The analyze_report the class ends up with: the second definition (line 106)
\* replaces the first (line 73) in the class body.  Every exception of the
\* sections, the consolidation or the enrichment ends in the demo analysis.
RA_analyze_report(self, text, company_info, stub, tieUp) ==
    LET loop == AnalyzeLoop(self, text, company_info, stub, sections,
                            [results |-> <<>>, calls |-> <<>>, errors |-> <<>>,
                             exc |-> ""])
        demo == [ ret |-> Ok(_get_demo_analysis), calls |-> loop.calls,
                  errors |-> Append(loop.errors,
                                    [in |-> "analyze_report", section |-> ""]) ]
    IN  IF loop.exc # "" THEN demo
        ELSE LET enr == _enrich_results(_consolidate_results(loop.results, tieUp),
                                        company_info)
             IN  IF enr.ok
                 THEN [ret |-> enr, calls |-> loop.calls, errors |-> loop.errors]
                 ELSE demo

(***************************************************************************)
(* Harness: analyze_report of report_analyzer.py against a stub service    *)
(***************************************************************************)
\* lengths of the report texts tried; 0 is the empty text
TextLengths == {0, 3}

Texts == {MakeText(n) : n \in TextLengths}

\* what the completion service can do with one request
SectionBodies ==
    { [score |-> 6000, evaluation |-> <<"ok">>, compliance |-> EmptyCompliance,
       recommendations |-> <<"Report scope 3">>],
      [score |-> 9000, evaluation |-> <<"ok">>, compliance |-> EmptyCompliance,
       recommendations |-> <<>>],
      [evaluation |-> <<"ok">>, recommendations |-> <<"Improve traceability">>] }

SectionResponses ==
    { [kind |-> "json", body |-> b] : b \in SectionBodies }
        \cup { [kind |-> "malformed"], [kind |-> "exception"] }

SectionSet == {sections[i] : i \in 1..Len(sections)}

InitRA ==
    /\ ra_self = RA__init__
    /\ ra_text \in Texts
    /\ ra_stub \in [SectionSet -> SectionResponses]
    /\ ra_out = None
    /\ IdleCons /\ IdleLoad /\ IdleApp /\ IdleUI

RACallAnalyzeReport ==
    /\ ra_out = None
    /\ \E tieUp \in BOOLEAN :
          ra_out' = RA_analyze_report(ra_self, ra_text, CompanyInfo, ra_stub, tieUp)
    /\ UNCHANGED <<ra_self, ra_text, ra_stub, consVars, loadVars, appVars, uiVars>>

NextRA == RACallAnalyzeReport

SpecRA == InitRA /\ [][NextRA]_vars

(***************************************************************************)
(* Claims about the per-section analyze_report                             *)
(***************************************************************************)
Failing(resp) == resp.kind \in {"malformed", "exception"}

ValidScored(resp) == resp.kind = "json" /\ "score" \in DOMAIN resp.body

\* C3: when the service fails (malformed JSON or an exception) for exactly
\* one section and answers valid JSON for the other two, analyze_report does
\* not raise and returns a consolidated result holding all three sections:
\* the failed one as the zeroed placeholder naming it, the other two with the
\* scores the service returned.
C3_OneSectionFails ==
    \A bad \in SectionSet :
        ( /\ ra_out # None
          /\ Failing(ra_stub[bad])
          /\ \A s \in SectionSet \ {bad} : ValidScored(ra_stub[s]) )
        => /\ ra_out.ret.ok
           /\ "detailed_analysis" \in DOMAIN ra_out.ret.val
           /\ \A s \in SectionSet : HasSection(ra_out.ret.val.detailed_analysis, s)
           /\ ResultsOf(ra_out.ret.val.detailed_analysis, bad) = SectionPlaceholder(bad)
           /\ ra_out.ret.val.section_scores[bad].score = 0
           /\ \A s \in SectionSet \ {bad} :
                 ra_out.ret.val.section_scores[s].score = ra_stub[s].body.score

(***************************************************************************)
(* app.py : load_csrd_documents                                            *)
(***************************************************************************)
\* A file name (the stem) is the sequence of its characters.
Name_ESRS_E1 == <<"E", "S", "R", "S", "_", "E", "1">>
Name_ESRS_S1 == <<"E", "S", "R", "S", "_", "S", "1">>
Name_ESRS_G1 == <<"E", "S", "R", "S", "_", "G", "1">>
Name_ESRS1 == <<"E", "S", "R", "S", "1">>
Name_ESRS2 == <<"E", "S", "R", "S", "2">>
Name_ESRS == <<"E", "S", "R", "S">>
Name_ESRSX == <<"E", "S", "R", "S", "X">>
Name_ANNEXE_1 == <<"A", "N", "N", "E", "X", "E", "_", "1">>
Name_README == <<"R", "E", "A", "D", "M", "E">>
Name_Questions_reponses == <<"Q", "u", "e", "s", "t", "i", "o", "n", "s", "_", "r", "é", "p", "o", "n", "s", "e", "s">>
Name_precisions_esrs == <<"p", "r", "e", "c", "i", "s", "i", "o", "n", "s", "_", "e", "s", "r", "s">>

Prefix_ESRS_E == <<"E", "S", "R", "S", "_", "E">>
Prefix_ESRS_S == <<"E", "S", "R", "S", "_", "S">>
Prefix_ESRS_G == <<"E", "S", "R", "S", "_", "G">>
Prefix_ESRS   == <<"E", "S", "R", "S">>
Prefix_ANNEXE == <<"A", "N", "N", "E", "X", "E">>

\* str.startswith
startswith(name, prefix) ==
    /\ Len(name) >= Len(prefix)
    /\ SubSeq(name, 1, Len(prefix)) = prefix

\* str.isdigit on one character
isdigit(c) == c \in {"0", "1", "2", "3", "4", "5", "6", "7", "8", "9"}

categories ==
    <<"environmental", "social", "governance", "cross_cutting", "annexes", "precisions">>

CategorySet == {categories[i] : i \in 1..Len(categories)}

\* the chain without the digit test: any other stem that starts with ESRS is
\* taken as cross-cutting
Categorize_no_digit_test(name) ==
    IF startswith(name, Prefix_ESRS_E) THEN Ok("environmental")
    ELSE IF startswith(name, Prefix_ESRS_S) THEN Ok("social")
    ELSE IF startswith(name, Prefix_ESRS_G) THEN Ok("governance")
    ELSE IF startswith(name, Prefix_ESRS) THEN Ok("cross_cutting")
    ELSE IF startswith(name, Prefix_ANNEXE) THEN Ok("annexes")
    ELSE IF name \in {Name_Questions_reponses, Name_precisions_esrs}
         THEN Ok("precisions")
    ELSE Ok("")

\* the if/elif chain on the stem: Ok(category), Ok("") when no rule matches,
\* or IndexError from name[4] on a stem of four characters
Categorize(name) ==
    IF startswith(name, Prefix_ESRS_E) THEN Ok("environmental")
    ELSE IF startswith(name, Prefix_ESRS_S) THEN Ok("social")
    ELSE IF startswith(name, Prefix_ESRS_G) THEN Ok("governance")
    ELSE IF startswith(name, Prefix_ESRS) /\ Len(name) < 5 THEN Raise("IndexError")
    ELSE IF startswith(name, Prefix_ESRS) /\ isdigit(name[5]) THEN Ok("cross_cutting")
    ELSE IF startswith(name, Prefix_ANNEXE) THEN Ok("annexes")
    ELSE IF name \in {Name_Questions_reponses, Name_precisions_esrs}
         THEN Ok("precisions")
    ELSE Ok("")

\* the csrd_data literal: six categories, each an empty dict
EmptyCorpus == [c \in CategorySet |-> <<>>]

\* d[name] = content on an ordered dict kept as a sequence of items
SetItem(d, name, content) ==
    IF \E i \in 1..Len(d) : d[i].name = name
    THEN [i \in 1..Len(d) |->
             IF d[i].name = name THEN [name |-> name, content |-> content] ELSE d[i]]
    ELSE Append(d, [name |-> name, content |-> content])

\* the body of the for loop for one file: a failure of open/read or of the
\* categorisation is caught, reported and leaves csrd_data as it was
LoadFile(acc, file) ==
    IF ~file.readable
    THEN [acc EXCEPT !.errors = Append(@, [in |-> "read", name |-> file.name])]
    ELSE LET cat == Categorize(file.name)
         IN  IF ~cat.ok
             THEN [acc EXCEPT !.errors = Append(@, [in |-> "read", name |-> file.name])]
             ELSE IF cat.val = "" THEN acc
             ELSE [acc EXCEPT !.csrd_data[cat.val] =
                                  SetItem(@, file.name, file.content)]

\* the loop with the try around it instead of inside it: the first failure
\* ends the loop and the files after it are never looked at
RECURSIVE LoadLoopStopAtFailure(_, _)
LoadLoopStopAtFailure(acc, files) ==
    IF files = <<>> THEN acc
    ELSE IF ~Head(files).readable \/ ~Categorize(Head(files).name).ok
         THEN LoadFile(acc, Head(files))
         ELSE LoadLoopStopAtFailure(LoadFile(acc, Head(files)), Tail(files))

RECURSIVE LoadLoop(_, _)
LoadLoop(acc, files) ==
    IF files = <<>> THEN acc
    ELSE LoadLoop(LoadFile(acc, Head(files)), Tail(files))

\* sum(len(files) for files in csrd_data.values())
total_docs(csrd_data) ==
    Len(csrd_data["environmental"]) + Len(csrd_data["social"])
        + Len(csrd_data["governance"]) + Len(csrd_data["cross_cutting"])
        + Len(csrd_data["annexes"]) + Len(csrd_data["precisions"])

\* The directory data/csrd/general as the loader meets it:
\*   missing       exists() is False
\*   inaccessible  exists() or the listing raises (the outer except)
\*   present       glob("*.txt") yields the files, in the order of the listing
\* ret is the corpus, or None from the outer except.
\* a loader for which a missing directory is a failure of the whole load
load_csrd_documents_missing_fails(dir) ==
    IF dir.state \in {"inaccessible", "missing"}
    THEN [ret |-> None, errors |-> <<[in |-> "load", name |-> <<>>]>>,
          notice |-> ""]
    ELSE LET acc == LoadLoop([csrd_data |-> EmptyCorpus, errors |-> <<>>],
                             dir.files)
         IN  [ret |-> acc.csrd_data, errors |-> acc.errors,
              notice |-> IF total_docs(acc.csrd_data) = 0
                         THEN "warning" ELSE "success"]

load_csrd_documents(dir) ==
    IF dir.state = "inaccessible"
    THEN [ret |-> None, errors |-> <<[in |-> "load", name |-> <<>>]>>,
          notice |-> ""]
    ELSE LET acc == LoadLoop([csrd_data |-> EmptyCorpus, errors |-> <<>>],
                             IF dir.state = "present" THEN dir.files ELSE <<>>)
         IN  [ret |-> acc.csrd_data, errors |-> acc.errors,
              notice |-> IF total_docs(acc.csrd_data) = 0
                         THEN "warning" ELSE "success"]

\* "not csrd_data"
Falsy(d) == d = None \/ DOMAIN d = {}

\* the cross-cutting documents added whatever the section is
get_regulatory_context_always_cross(csrd_data, section) ==
    IF Falsy(csrd_data) THEN <<>>
    ELSE Join(
           Values(csrd_data["cross_cutting"])
           \o (IF section \in DOMAIN csrd_data
               THEN Values(csrd_data[section]) ELSE <<>>)
           \o (IF "precisions" \in DOMAIN csrd_data
               THEN Values(csrd_data["precisions"]) ELSE <<>>))

\* the same documents with the section's own before the cross-cutting ones
get_regulatory_context_section_first(csrd_data, section) ==
    IF Falsy(csrd_data) THEN <<>>
    ELSE Join(
           (IF section \in DOMAIN csrd_data
            THEN Values(csrd_data[section]) ELSE <<>>)
           \o (IF section \in {"environmental", "social", "governance"}
               THEN Values(csrd_data["cross_cutting"]) ELSE <<>>)
           \o (IF "precisions" \in DOMAIN csrd_data
               THEN Values(csrd_data["precisions"]) ELSE <<>>))

\* get_regulatory_context(csrd_data, section), the documents as a sequence
\* of texts joined by the separator
get_regulatory_context(csrd_data, section) ==
    IF Falsy(csrd_data) THEN <<>>
    ELSE Join(
           (IF section \in {"environmental", "social", "governance"}
            THEN Values(csrd_data["cross_cutting"]) ELSE <<>>)
           \o (IF section \in DOMAIN csrd_data
               THEN Values(csrd_data[section]) ELSE <<>>)
           \o (IF "precisions" \in DOMAIN csrd_data
               THEN Values(csrd_data["precisions"]) ELSE <<>>))

(***************************************************************************)
(* Harness: load_csrd_documents on every directory                         *)
(***************************************************************************)
\* most files the directory holds
MaxFiles == 3

NamePool ==
    { Name_ESRS_E1, Name_ESRS_S1, Name_ESRS_G1, Name_ESRS1, Name_ESRS,
      Name_ESRSX, Name_ANNEXE_1, Name_README, Name_Questions_reponses }

\* the content of a file, told apart by its name
ContentOf(name) == <<name>>

FilePool ==
    { [name |-> n, readable |-> r, content |-> ContentOf(n)] :
        n \in NamePool, r \in BOOLEAN }

NoRepeat(l) == \A i, j \in 1..Len(l) : i # j => l[i].name # l[j].name

\* listings: sequences of files with distinct names, n at most
RECURSIVE Listings(_)
Listings(n) ==
    IF n = 0 THEN {<<>>}
    ELSE LET shorter == Listings(n - 1)
         IN  shorter \cup
             { t \in { Append(l, f) : l \in shorter, f \in FilePool } :
                 NoRepeat(t) }

Directories ==
    { [state |-> "missing"], [state |-> "inaccessible"] }
        \cup { [state |-> "present", files |-> l] :
                 l \in Listings(MaxFiles) }

\* the section names a caller passes: the categories, and "general" (main)
ContextSections == CategorySet \cup {"general"}

InitLoad ==
    /\ general_dir \in Directories
    /\ load_out = None
    /\ context_out = None
    /\ IdleCons /\ IdleRA /\ IdleApp /\ IdleUI

CallLoad ==
    /\ load_out = None
    /\ load_out' = load_csrd_documents(general_dir)
    /\ UNCHANGED <<general_dir, context_out, consVars, raVars, appVars, uiVars>>

\* the caller asks for the context of a section of what the load returned
CallContext(section) ==
    /\ load_out # None
    /\ context_out = None
    /\ context_out' =
           [section |-> section,
            ret |-> get_regulatory_context(load_out.ret, section)]
    /\ UNCHANGED <<general_dir, load_out, consVars, raVars, appVars, uiVars>>

NextLoad ==
    \/ CallLoad
    \/ \E section \in ContextSections : CallContext(section)

SpecLoad == InitLoad /\ [][NextLoad]_vars

(***************************************************************************)
(* Claims about the loader                                                 *)
(***************************************************************************)
\* a file the loader cannot take: unreadable, or its stem breaks the rules
FailsToLoad(file) == ~file.readable \/ ~Categorize(file.name).ok

\* the category a loadable file belongs to, "" when no rule matches
CategoryOf(file) == Categorize(file.name).val

InCategory(csrd_data, c, file) ==
    \E i \in 1..Len(csrd_data[c]) :
        csrd_data[c][i] = [name |-> file.name, content |-> file.content]

NamedIn(csrd_data, c, name) ==
    \E i \in 1..Len(csrd_data[c]) : csrd_data[c][i].name = name

\* C10: a failure while reading or classifying one file (the stem "ESRS"
\* included) skips only that file: the load returns a corpus, not None, every
\* other readable file is in its category, and the failed file is in none.
C10_FailureSkipsOnlyThatFile ==
    (load_out # None /\ general_dir.state = "present") =>
        /\ load_out.ret # None
        /\ \A i \in 1..Len(general_dir.files) :
              LET file == general_dir.files[i]
              IN  IF FailsToLoad(file)
                  THEN \A c \in CategorySet : ~NamedIn(load_out.ret, c, file.name)
                  ELSE \A c \in CategorySet :
                          InCategory(load_out.ret, c, file) <=> c = CategoryOf(file)
        /\ Len(load_out.errors) =
               Cardinality({i \in 1..Len(general_dir.files) :
                              FailsToLoad(general_dir.files[i])})

\* the stem "ESRS" and an unreadable file come first, and the file after them
\* is loaded
C10_Witness ==
    /\ load_out # None
    /\ general_dir.state = "present"
    /\ Len(general_dir.files) = 3
    /\ general_dir.files[1].name = Name_ESRS /\ general_dir.files[1].readable
    /\ general_dir.files[2].name = Name_ESRS_S1 /\ ~general_dir.files[2].readable
    /\ general_dir.files[3].name = Name_ESRS_E1 /\ general_dir.files[3].readable
    /\ load_out.ret # None
    /\ load_out.ret["environmental"] =
           <<[name |-> Name_ESRS_E1, content |-> ContentOf(Name_ESRS_E1)]>>
    /\ Len(load_out.errors) = 2

\* the ordered prefix rules as the documentation lists them: rule i sends a
\* stem that matches it to RuleCategory[i]
RuleMatches(i, name) ==
    CASE i = 1 -> startswith(name, <<"E", "S", "R", "S", "_", "E">>)
      [] i = 2 -> startswith(name, <<"E", "S", "R", "S", "_", "S">>)
      [] i = 3 -> startswith(name, <<"E", "S", "R", "S", "_", "G">>)
      [] i = 4 -> /\ startswith(name, <<"E", "S", "R", "S">>)
                  /\ Len(name) >= 5
                  /\ name[5] \in {"0", "1", "2", "3", "4", "5", "6", "7", "8", "9"}
      [] i = 5 -> startswith(name, <<"A", "N", "N", "E", "X", "E">>)
      [] i = 6 -> name \in {Name_Questions_reponses, Name_precisions_esrs}

RuleCategory ==
    <<"environmental", "social", "governance", "cross_cutting", "annexes",
      "precisions">>

\* the categories the rules give a stem: the one of the first rule that
\* matches, none when no rule matches
RuleCategories(name) ==
    { RuleCategory[i] : i \in { j \in 1..6 : /\ RuleMatches(j, name)
                                             /\ \A k \in 1..(j - 1) :
                                                   ~RuleMatches(k, name) } }

\* C11: every readable file of the directory is, after the load, in exactly
\* the category the first matching prefix rule gives its stem, with its
\* content, and in no other; a file whose stem matches no rule is in no
\* category.  The category depends on the stem alone.
C11_OneCategoryByPrefix ==
    (load_out # None /\ general_dir.state = "present") =>
        /\ load_out.ret # None
        /\ \A i \in 1..Len(general_dir.files) :
              LET file == general_dir.files[i]
                  in == { c \in CategorySet : NamedIn(load_out.ret, c, file.name) }
              IN  file.readable =>
                    /\ in = RuleCategories(file.name)
                    /\ Cardinality(in) <= 1
                    /\ \A c \in in : InCategory(load_out.ret, c, file)
        /\ \A c \in CategorySet : \A k \in 1..Len(load_out.ret[c]) :
              \E i \in 1..Len(general_dir.files) :
                  /\ general_dir.files[i].name = load_out.ret[c][k].name
                  /\ general_dir.files[i].readable

\* a cross-cutting file, a file with no rule and a file that starts with ESRS
\* without a digit after it were all read: only the first is in the corpus
C11_Witness ==
    /\ load_out # None
    /\ general_dir.state = "present"
    /\ Len(general_dir.files) = 3
    /\ \A i \in 1..3 : general_dir.files[i].readable
    /\ {general_dir.files[i].name : i \in 1..3} =
           {Name_ESRS1, Name_README, Name_ESRSX}
    /\ load_out.ret # None
    /\ total_docs(load_out.ret) = 1
    /\ NamedIn(load_out.ret, "cross_cutting", Name_ESRS1)

\* the documents of a category, in the order the corpus holds them
DocsOf(corpus, c) ==
    IF c \in DOMAIN corpus
    THEN [k \in 1..Len(corpus[c]) |-> corpus[c][k].content]
    ELSE <<>>

\* the first k documents of docs, each but the first preceded by the separator
RECURSIVE JoinedUpTo(_, _)
JoinedUpTo(docs, k) ==
    IF k = 0 THEN <<>>
    ELSE IF k = 1 THEN docs[1]
    ELSE JoinedUpTo(docs, k - 1) \o <<separator>> \o docs[k]

\* cross-cutting documents for the three main sections, then the section's
\* own, then every clarification document
ContextDocs(corpus, section) ==
    (IF section \in {"environmental", "social", "governance"}
     THEN DocsOf(corpus, "cross_cutting") ELSE <<>>)
        \o DocsOf(corpus, section) \o DocsOf(corpus, "precisions")

\* C12: get_regulatory_context returns the cross-cutting documents (for
\* environmental, social and governance only), then the section's own
\* documents, then all clarification documents, joined by the separator and
\* with no document removed; for an absent corpus, or one with no document,
\* it returns the empty string.
C12_ContextOrder ==
    context_out # None =>
        /\ load_out.ret = None => context_out.ret = <<>>
        /\ (load_out.ret # None /\ total_docs(load_out.ret) = 0)
              => context_out.ret = <<>>
        /\ load_out.ret # None =>
              LET docs == ContextDocs(load_out.ret, context_out.section)
              IN  context_out.ret = JoinedUpTo(docs, Len(docs))

\* a cross-cutting, an environmental and a clarification document, asked for
\* the environmental section
C12_Witness ==
    /\ context_out # None
    /\ context_out.section = "environmental"
    /\ load_out.ret # None
    /\ context_out.ret =
           <<Name_ESRS1, separator, Name_ESRS_E1, separator,
             Name_Questions_reponses>>

\* C17: one per-section analysis issues exactly one request per section, in
\* the order environmental, social, governance, and the consolidated result is
\* built from the three section results.
C17_OneCallPerSectionInOrder ==
    ra_out # None =>
        /\ Len(ra_out.calls) = Len(sections)
        /\ \A i \in 1..Len(sections) : ra_out.calls[i].section = sections[i]
        /\ ra_out.ret.ok
        /\ "detailed_analysis" \in DOMAIN ra_out.ret.val
        /\ \A s \in SectionSet : HasSection(ra_out.ret.val.detailed_analysis, s)

\* C13: in the per-section analysis the context put in the request of each of
\* the sections environmental, social and governance is what
\* get_regulatory_context gives for that section on the corpus of the
\* directory: cross-cutting documents, the section's documents, then the
\* clarification documents.
C13_SectionContextIsGetContext ==
    ra_out # None =>
        \A s \in SectionSet :
            \E i \in 1..Len(ra_out.calls) :
                /\ ra_out.calls[i].section = s
                /\ ra_out.calls[i].regulatory_context =
                       Prefix(get_regulatory_context(
                                  load_csrd_documents(general_dir).ret, s), 2000)

(***************************************************************************)
(* app.py : class CSRDReportAnalyzer (one call for the whole report)       *)
(***************************************************************************)
\* the four sections of the single-call scheme
flat_sections == <<"gouvernance", "strategie", "gestion_risques", "indicateurs">>

FlatSet == {flat_sections[i] : i \in 1..Len(flat_sections)}

get_company_context(name) ==
    [name |-> name, sector |-> "Non specifie", size |-> "Non specifiee"]

\* the parts of the f-string prompt that depend on the arguments
_create_analysis_prompt(text, company_info, csrd_regulation) ==
    [ csrd_regulation |-> Prefix(csrd_regulation, 2000),
      name |-> company_info.name, sector |-> company_info.sector,
      size |-> company_info.size,
      text |-> Prefix(text, 8000) ]

RECURSIVE SumScores(_, _)
SumScores(analysis, todo) ==
    IF todo = <<>> THEN 0
    ELSE analysis[Head(todo)]["score"] + SumScores(analysis, Tail(todo))

\* the same computation with the service's own conformite.score_global, when
\* there is one, as the global score
_validate_and_enhance_results_service_score(results) ==
    IF results = None THEN Raise("TypeError")
    ELSE IF "analysis" \notin DOMAIN results THEN Raise("KeyError")
    ELSE IF \E i \in 1..Len(flat_sections) :
                \/ flat_sections[i] \notin DOMAIN results["analysis"]
                \/ "score" \notin DOMAIN results["analysis"][flat_sections[i]]
         THEN Raise("KeyError")
    ELSE Ok(Put(results, "metadata",
                [ date_analyse |-> "now", version_csrd |-> "2024",
                  score_global |->
                      IF "conformite" \in DOMAIN results
                      THEN 4 * results["conformite"]["score_global"]
                      ELSE SumScores(results["analysis"], flat_sections) ]))

\* the same computation with metadata that carries no version
_validate_and_enhance_results_unversioned(results) ==
    IF results = None THEN Raise("TypeError")
    ELSE IF "analysis" \notin DOMAIN results THEN Raise("KeyError")
    ELSE IF \E i \in 1..Len(flat_sections) :
                \/ flat_sections[i] \notin DOMAIN results["analysis"]
                \/ "score" \notin DOMAIN results["analysis"][flat_sections[i]]
         THEN Raise("KeyError")
    ELSE Ok(Put(results, "metadata",
                [ date_analyse |-> "now",
                  score_global |-> SumScores(results["analysis"], flat_sections) ]))

\* score_global is held in quarters of a hundredth, so that the division by
\* len(section_scores) = 4 is exact: the value stored is the sum of the four
\* scores (in hundredths).  Subscripting a missing key raises KeyError, and
\* subscripting None (JSON null) TypeError.
_validate_and_enhance_results(results) ==
    IF results = None THEN Raise("TypeError")
    ELSE IF "analysis" \notin DOMAIN results THEN Raise("KeyError")
    ELSE IF \E i \in 1..Len(flat_sections) :
                \/ flat_sections[i] \notin DOMAIN results["analysis"]
                \/ "score" \notin DOMAIN results["analysis"][flat_sections[i]]
         THEN Raise("KeyError")
    ELSE Ok(Put(results, "metadata",
                [ date_analyse |-> "now", version_csrd |-> "2024",
                  score_global |-> SumScores(results["analysis"], flat_sections) ]))

\* the fallback dict of app.py; 77.5 is 31000 quarters of a hundredth
APP_get_demo_analysis ==
    [ analysis |->
        [ gouvernance |->
            [score |-> 7500, evaluation |-> <<"Bonne integration de la durabilite">>,
             points_forts |-> <<"Comite RSE actif">>,
             axes_amelioration |-> <<"Renforcer le lien remuneration-RSE">>],
          strategie |->
            [score |-> 7000, evaluation |-> <<"Strategie climat definie">>,
             points_forts |-> <<"Objectifs 2030 fixes">>,
             axes_amelioration |-> <<"Preciser les jalons">>],
          gestion_risques |->
            [score |-> 8000, evaluation |-> <<"Processus robuste">>,
             points_forts |-> <<"Cartographie detaillee">>,
             axes_amelioration |-> <<"Ameliorer le suivi">>],
          indicateurs |->
            [score |-> 8500, evaluation |-> <<"KPIs bien definis">>,
             points_forts |-> <<"Scope 3 calcule">>,
             axes_amelioration |-> <<"Ajouter biodiversite">>] ],
      conformite |->
        [score_global |-> 7750, evaluation |-> <<"Bonne conformite generale">>,
         non_conformites |-> <<>>],
      recommandations |->
        <<"Renforcer les objectifs biodiversite", "Ameliorer le reporting scope 3">>,
      sources |-> <<"Rapport annuel", "Documentation CSRD">>,
      metadata |->
        [date_analyse |-> "now", version_csrd |-> "2024", score_global |-> 31000] ]

\* analyze_report without its except clause: the exception reaches the caller
APP_analyze_report_unguarded(text, company_info, csrd_regulation, response) ==
    LET prompt == _create_analysis_prompt(text, company_info, csrd_regulation)
        v == IF response.kind = "json"
             THEN _validate_and_enhance_results(response.body)
             ELSE Raise(IF response.kind = "malformed"
                        THEN "JSONDecodeError" ELSE "APIError")
    IN  [ret |-> v, calls |-> <<prompt>>, errors |-> <<>>]

\* an analyze_report whose except branch returns the fallback without a word
APP_analyze_report_silent(text, company_info, csrd_regulation, response) ==
    LET prompt == _create_analysis_prompt(text, company_info, csrd_regulation)
        v == IF response.kind = "json"
             THEN _validate_and_enhance_results(response.body)
             ELSE Raise(IF response.kind = "malformed"
                        THEN "JSONDecodeError" ELSE "APIError")
    IN  IF v.ok
        THEN [ret |-> v, calls |-> <<prompt>>, errors |-> <<>>]
        ELSE [ret |-> Ok(APP_get_demo_analysis), calls |-> <<prompt>>,
              errors |-> <<>>]

\* ret: what analyze_report returns (it has no path that raises); calls: the
\* prompts sent to the completion service; errors: the st.error messages.
\* The prompt is built and the request sent whatever the text is.
APP_analyze_report(text, company_info, csrd_regulation, response) ==
    LET prompt == _create_analysis_prompt(text, company_info, csrd_regulation)
        v == IF response.kind = "json"
             THEN _validate_and_enhance_results(response.body)
             ELSE Raise(IF response.kind = "malformed"
                        THEN "JSONDecodeError" ELSE "APIError")
    IN  IF v.ok
        THEN [ret |-> v, calls |-> <<prompt>>, errors |-> <<>>]
        ELSE [ret |-> Ok(APP_get_demo_analysis), calls |-> <<prompt>>,
              errors |-> <<[in |-> "analyze_report", exc |-> v.exc]>>]

(***************************************************************************)
(* Harness: analyze_report of app.py against a stub service                *)
(***************************************************************************)
FlatScoreChoices == {0, 7000, 10000}

FlatSection(score) ==
    [score |-> score, evaluation |-> <<"ok">>, points_forts |-> <<"p">>,
     axes_amelioration |-> <<"a">>]

\* a complete answer with the given section scores
FullBody(scores) ==
    [ analysis |-> [sec \in FlatSet |-> FlatSection(scores[sec])],
      conformite |-> [score_global |-> 5000, evaluation |-> <<"ok">>,
                      non_conformites |-> <<"nc">>],
      recommandations |-> <<"r">>,
      sources |-> <<"s">> ]

\* d without the key k
Without(d, k) == [x \in DOMAIN d \ {k} |-> d[x]]

SomeFullBody == FullBody([sec \in FlatSet |-> 7000])

\* answers that are JSON but not the object asked for
BrokenBodies ==
    { None,
      Without(SomeFullBody, "analysis"),
      [SomeFullBody EXCEPT !["analysis"] = Without(@, "indicateurs")],
      [SomeFullBody EXCEPT !["analysis"]["strategie"] = Without(@, "score")] }

\* answers that pass _validate_and_enhance_results with a top-level key missing
PartialBodies ==
    { Without(SomeFullBody, k) : k \in {"conformite", "recommandations", "sources"} }

AppBodies ==
    {FullBody(sc) : sc \in [FlatSet -> FlatScoreChoices]}
        \cup BrokenBodies \cup PartialBodies

AppResponses ==
    {[kind |-> "json", body |-> b] : b \in AppBodies}
        \cup {[kind |-> "malformed"], [kind |-> "exception"]}

\* report texts: empty, short, exactly as long as the cap on the text, and one
\* character longer
AppTexts == {MakeText(n) : n \in {0, 3, 8000, 8001}}

\* regulatory contexts: empty, exactly as long as the cap, one character longer
AppRegulations == {MakeText(n) : n \in {0, 2000, 2001}}

InitApp ==
    /\ app_text \in AppTexts
    /\ app_regulation \in AppRegulations
    /\ app_response \in AppResponses
    /\ app_out = None
    /\ IdleCons /\ IdleRA /\ IdleLoad /\ IdleUI

AppCallAnalyzeReport ==
    /\ app_out = None
    /\ app_out' = APP_analyze_report(app_text, CompanyInfo, app_regulation,
                                      app_response)
    /\ UNCHANGED <<app_text, app_regulation, app_response, consVars, raVars,
                   loadVars, uiVars>>

NextApp == AppCallAnalyzeReport

SpecApp == InitApp /\ [][NextApp]_vars

(***************************************************************************)
(* Claims about analyze_report                                             *)
(***************************************************************************)
\* C4: given an empty report text, analyze_report raises an input-validation
\* error for the whole analysis before any call is issued to the completion
\* service.
C4_EmptyTextRejected ==
    (app_out # None /\ app_text = <<>>) =>
        /\ ~app_out.ret.ok
        /\ app_out.calls = <<>>

\* the service failed: it raised, its body does not parse, or a section score
\* is missing from the parsed body
ServiceFailed(response) ==
    \/ response.kind \in {"malformed", "exception"}
    \/ /\ response.kind = "json"
       /\ ~_validate_and_enhance_results(response.body).ok

\* C6: when the completion-service call fails (exception, unparsable body or
\* missing section score), the result analyze_report returns is a zeroed
\* placeholder: every section score is 0 and the lists are empty, so a failed
\* analysis never yields a non-zero score.
C6_FailureGivesZeroedPlaceholder ==
    (app_out # None /\ ServiceFailed(app_response)) =>
        /\ app_out.ret.ok
        /\ \A sec \in FlatSet :
              /\ app_out.ret.val.analysis[sec].score = 0
              /\ app_out.ret.val.analysis[sec].points_forts = <<>>
              /\ app_out.ret.val.analysis[sec].axes_amelioration = <<>>
        /\ app_out.ret.val.recommandations = <<>>
        /\ app_out.ret.val.metadata.score_global = 0

\* shown is the first characters of whole, cap of them at most
CappedPrefix(shown, whole, cap) ==
    /\ Len(shown) <= cap
    /\ Len(shown) <= Len(whole)
    /\ \A k \in 1..Len(shown) : shown[k] = whole[k]
    /\ \A k \in 1..Len(whole) :
          k > cap => \A j \in 1..Len(shown) : shown[j] # whole[k]

\* C14: every prompt sent to the completion service embeds at most the first
\* 2000 characters of the regulatory context and at most the first 8000
\* characters of the report text; no character beyond those caps is in it.
C14_PromptCaps ==
    app_out # None =>
        \A i \in 1..Len(app_out.calls) :
            /\ CappedPrefix(app_out.calls[i].csrd_regulation, app_regulation, 2000)
            /\ CappedPrefix(app_out.calls[i].text, app_text, 8000)

\* a request was sent for a text and a context both one character over
\* their caps
C14_Witness ==
    /\ app_out # None
    /\ Len(app_text) = 8001
    /\ Len(app_regulation) = 2001
    /\ Len(app_out.calls) = 1
    /\ Len(app_out.calls[1].text) = 8000
    /\ Len(app_out.calls[1].csrd_regulation) = 2000

\* the top-level keys of the answer the single-call prompt asks for
ExpectedTopLevel == {"analysis", "conformite", "recommandations", "sources"}

\* C15: a parsed answer that lacks an expected top-level key (analysis,
\* conformite, recommandations, sources) is never returned as a successful
\* result: it is handled as a failure of the service.
C15_MissingKeyNeverTrusted ==
    ( /\ app_out # None
      /\ app_response.kind = "json"
      /\ \E k \in ExpectedTopLevel : k \notin DOMAIN app_response.body )
    => /\ app_out.errors # <<>>
       /\ app_out.ret.val = APP_get_demo_analysis

\* the metadata of a result carries the key with the value
HasVersion(result, key, value) ==
    /\ "metadata" \in DOMAIN result
    /\ key \in DOMAIN result["metadata"]
    /\ result["metadata"][key] = value

\* C18: every result analyze_report returns, from the service's answer or as
\* the fallback, carries metadata whose version_csrd is "2024"; the results
\* of the per-section analyzer carry esrs_version "2024" and analyzer_version
\* "2.0", in the enriched result and in its fallback alike.
C18_MetadataVersion ==
    /\ app_out # None =>
          /\ app_out.ret.ok
          /\ HasVersion(app_out.ret.val, "version_csrd", "2024")
    /\ HasVersion(_get_demo_analysis, "esrs_version", "2024")
    /\ HasVersion(_get_demo_analysis, "analyzer_version", "2.0")
    /\ LET enr == _enrich_results(
                      _consolidate_results(
                          <<[section |-> "environmental", results |-> [score |-> 8000]],
                            [section |-> "social", results |-> [score |-> 7000]],
                            [section |-> "governance", results |-> [score |-> 7500]]>>,
                          TRUE),
                      CompanyInfo)
       IN  /\ enr.ok
           /\ HasVersion(enr.val, "esrs_version", "2024")
           /\ HasVersion(enr.val, "analyzer_version", "2.0")

\* a result computed from the service's answer
C18_Witness ==
    /\ app_out # None
    /\ app_response.kind = "json"
    /\ app_out.errors = <<>>
    /\ app_out.ret.ok
    /\ app_out.ret.val["metadata"]["version_csrd"] = "2024"
    /\ app_out.ret.val["metadata"]["score_global"] = 28000

\* C19: whenever a failure of the completion service is replaced by the
\* fallback result, an error message is emitted by the same call: no call
\* returns the fallback without having reported an error, and a call that
\* reports an error is one whose service failed.
C19_FallbackReportsError ==
    app_out # None =>
        /\ ServiceFailed(app_response) =>
              /\ app_out.ret.ok
              /\ app_out.ret.val = APP_get_demo_analysis
              /\ Len(app_out.errors) = 1
              /\ app_out.errors[1]["in"] = "analyze_report"
        /\ (app_out.ret.ok /\ app_out.ret.val = APP_get_demo_analysis)
              => app_out.errors # <<>>
        /\ ~ServiceFailed(app_response) => app_out.errors = <<>>

\* the service answered JSON without the analysis key and the fallback was
\* returned with an error
C19_Witness ==
    /\ app_out # None
    /\ app_response.kind = "json"
    /\ app_response.body # None
    /\ "analysis" \notin DOMAIN app_response.body
    /\ app_out.ret.val = APP_get_demo_analysis
    /\ app_out.errors = <<[in |-> "analyze_report", exc |-> "KeyError"]>>

\* four times the arithmetic mean of the four section scores of a result
FourTimesMean(result) ==
    result["analysis"]["gouvernance"]["score"]
        + result["analysis"]["strategie"]["score"]
        + result["analysis"]["gestion_risques"]["score"]
        + result["analysis"]["indicateurs"]["score"]

\* C24: every result analyze_report returns, validated from the service's
\* answer or the fallback, has metadata.score_global equal to the arithmetic
\* mean of the scores of gouvernance, strategie, gestion_risques and
\* indicateurs (score_global is kept as four times its value); the
\* conformite.score_global of the service's answer plays no part in it.
C24_ScoreGlobalIsMean ==
    app_out # None =>
        /\ app_out.ret.ok
        /\ app_out.ret.val["metadata"]["score_global"]
               = FourTimesMean(app_out.ret.val)
        /\ app_out.errors = <<>> =>
              app_out.ret.val["metadata"]["score_global"]
                  = FourTimesMean(app_response.body)

\* the service answered scores 100, 0, 70, 0 with its own global score of 50,
\* and the result carries their mean, 42.5
C24_Witness ==
    /\ app_out # None
    /\ app_response.kind = "json"
    /\ app_out.errors = <<>>
    /\ "conformite" \in DOMAIN app_response.body
    /\ app_response.body["conformite"]["score_global"] = 5000
    /\ app_response.body["analysis"]["gouvernance"]["score"] = 10000
    /\ app_response.body["analysis"]["strategie"]["score"] = 0
    /\ app_response.body["analysis"]["gestion_risques"]["score"] = 7000
    /\ app_response.body["analysis"]["indicateurs"]["score"] = 0
    /\ app_out.ret.val["metadata"]["score_global"] = 17000

(***************************************************************************)
(* app.py : main, the script Streamlit runs again on every interaction     *)
(***************************************************************************)
\* an __init__ that does not look for the key in the secrets
APP__init__no_key_check(key) == Ok([client |-> "OpenAI", model |-> "gpt-4o-mini"])

\* CSRDReportAnalyzer.__init__ of app.py: the object, or the exception raised
\* when the secrets hold no API key
APP__init__(key) ==
    IF key THEN Ok([client |-> "OpenAI", model |-> "gpt-4o-mini"])
    ELSE Raise("Exception")

\* extract_text_from_pdf: the text of the pages, or None when the reader raises
extract_text_from_pdf(pdf_file) ==
    IF pdf_file.readable THEN [isNone |-> FALSE, text |-> pdf_file.text]
    ELSE [isNone |-> TRUE, text |-> <<>>]

\* "if text:"
TextTruthy(t) == t # None /\ ~t.isNone /\ t.text # <<>>

\* a reset that lowers the flag and keeps the results
reset_flag_only(ss) == Put(ss, "analysis_completed", FALSE)

\* a reset that forgets the results and leaves the flag as it is
reset_results_only(ss) == Put(ss, "analysis_results", None)

\* reset_analysis_state
reset_analysis_state(ss) ==
    Put(Put(ss, "analysis_completed", FALSE), "analysis_results", None)

\* lines 441-446: the analyzer is built once per session
InitAnalyzer(ss, key) ==
    IF "analyzer" \in DOMAIN ss THEN ss
    ELSE IF APP__init__(key).ok THEN Put(ss, "analyzer", APP__init__(key).val)
    ELSE ss

\* lines 466-488: the three keys get their defaults, and a non-empty company
\* name is stored as current_company_info
PageTop(ss, name) ==
    LET s1 == IF "analysis_completed" \in DOMAIN ss THEN ss
              ELSE Put(ss, "analysis_completed", FALSE)
        s2 == IF "analysis_results" \in DOMAIN s1 THEN s1
              ELSE Put(s1, "analysis_results", None)
        s3 == IF "current_company_info" \in DOMAIN s2 THEN s2
              ELSE Put(s2, "current_company_info", None)
    IN  IF name # "" THEN Put(s3, "current_company_info", get_company_context(name))
        ELSE s3

\* lines 538-540: what the results block shows
Display(ss) ==
    IF ss["analysis_completed"] /\ ~Falsy(ss["analysis_results"])
    THEN [analysis_results |-> ss["analysis_results"],
          company_info |-> ss["current_company_info"]]
    ELSE None

\* one run of main with no button pressed: the session state it leaves, what
\* it displays and the errors it shows
Script(ss, key, pg, name) ==
    LET s1 == InitAnalyzer(ss, key)
    IN  IF "analyzer" \notin DOMAIN s1
        THEN [ss |-> s1, displayed |-> None,
              alerts |-> <<"Clé API manquante dans les secrets Streamlit",
                           "Erreur d'initialisation">>]
        ELSE IF pg = "Analyse CSRD"
        THEN [ss |-> PageTop(s1, name), displayed |-> Display(PageTop(s1, name)),
              alerts |-> <<>>]
        ELSE [ss |-> s1, displayed |-> None, alerts |-> <<>>]

pages == <<"Analyse CSRD", "Dashboard", "Historique">>

\* the sidebar and the page are rendered once the analyzer exists
Rendered == "analyzer" \in DOMAIN session_state

\* the widgets of the analysis page are on screen
AnalysisWidgets == Rendered /\ page = "Analyse CSRD" /\ phase = "idle"

(***************************************************************************)
(* The session: what the user and the environment can do                   *)
(***************************************************************************)
CompanyNames == {"", "ACME", "Globex"}

\* uploaded PDFs: one with text, one without, one the reader fails on
UploadedFiles ==
    { [id |-> "report.pdf", readable |-> TRUE, text |-> MakeText(3)],
      [id |-> "blank.pdf", readable |-> TRUE, text |-> <<>>],
      [id |-> "broken.pdf", readable |-> FALSE, text |-> <<>>] }

GoodFile(n) == [name |-> n, readable |-> TRUE, content |-> ContentOf(n)]

\* the corpus directories tried in a session
SessionDirectories ==
    { [state |-> "missing"], [state |-> "inaccessible"],
      [state |-> "present",
       files |-> <<GoodFile(Name_ESRS1), GoodFile(Name_Questions_reponses),
                   GoodFile(Name_ESRS_E1)>>],
      [state |-> "present",
       files |-> <<GoodFile(Name_ESRS), GoodFile(Name_precisions_esrs)>>] }

\* what the completion service answers in a session
SessionResponses ==
    { [kind |-> "json", body |-> SomeFullBody],
      [kind |-> "json", body |-> FullBody([sec \in FlatSet |-> 10000])],
      [kind |-> "json", body |-> Without(SomeFullBody, "analysis")],
      [kind |-> "json", body |-> Without(SomeFullBody, "conformite")],
      [kind |-> "malformed"], [kind |-> "exception"] }

Init ==
    /\ session_state = EmptyDict
    /\ company_name = ""
    /\ uploaded_file = None
    /\ page = "Analyse CSRD"
    /\ has_api_key \in BOOLEAN
    /\ general_dir \in SessionDirectories
    /\ corpus_cache = [loaded |-> FALSE]
    /\ phase = "idle"
    /\ run_text = None
    /\ pending = None
    /\ displayed = None
    /\ alerts = <<>>
    /\ load_out = None
    /\ context_out = None
    /\ IdleCons /\ IdleRA /\ IdleApp

otherVars == <<consVars, raVars, appVars, load_out, context_out, general_dir>>

\* the script runs with the widgets as they are: the first load of the page, or
\* a rerun the user asks for
Rerun ==
    /\ phase = "idle"
    /\ LET r == Script(session_state, has_api_key, page, company_name)
       IN  session_state' = r.ss /\ displayed' = r.displayed /\ alerts' = r.alerts
    /\ UNCHANGED <<company_name, uploaded_file, page, has_api_key, corpus_cache,
                   phase, run_text, pending, otherVars>>

\* the API key is added to the secrets of the deployment
ConfigureApiKey ==
    /\ ~has_api_key
    /\ has_api_key' = TRUE
    /\ UNCHANGED <<session_state, company_name, uploaded_file, page, corpus_cache,
                   phase, run_text, pending, displayed, alerts, otherVars>>

\* a text_input without on_change: the name changes and the script runs
EditCompanyName_no_reset(n) ==
    /\ AnalysisWidgets
    /\ n # company_name
    /\ company_name' = n
    /\ LET r == Script(session_state, has_api_key, page, n)
       IN  session_state' = r.ss /\ displayed' = r.displayed /\ alerts' = r.alerts
    /\ UNCHANGED <<uploaded_file, page, has_api_key, corpus_cache, phase, run_text,
                   pending, otherVars>>

\* the user types another company name: on_change resets, then the script runs
EditCompanyName(n) ==
    /\ AnalysisWidgets
    /\ n # company_name
    /\ company_name' = n
    /\ LET r == Script(reset_analysis_state(session_state), has_api_key, page, n)
       IN  session_state' = r.ss /\ displayed' = r.displayed /\ alerts' = r.alerts
    /\ UNCHANGED <<uploaded_file, page, has_api_key, corpus_cache, phase, run_text,
                   pending, otherVars>>

\* the user uploads, replaces or removes the PDF: on_change resets, then the
\* script runs
ChangeFile(f) ==
    /\ AnalysisWidgets
    /\ f # uploaded_file
    /\ uploaded_file' = f
    /\ LET r == Script(reset_analysis_state(session_state), has_api_key, page,
                       company_name)
       IN  session_state' = r.ss /\ displayed' = r.displayed /\ alerts' = r.alerts
    /\ UNCHANGED <<company_name, page, has_api_key, corpus_cache, phase, run_text,
                   pending, otherVars>>

\* the user picks another page.  A widget that a run does not render loses its
\* value, so away from the analysis page the name and the file are dropped.
ChangePage(p) ==
    /\ Rendered /\ phase = "idle"
    /\ p # page
    /\ page' = p
    /\ company_name' = IF p = "Analyse CSRD" THEN company_name ELSE ""
    /\ uploaded_file' = IF p = "Analyse CSRD" THEN uploaded_file ELSE None
    /\ LET r == Script(session_state, has_api_key, p, company_name')
       IN  session_state' = r.ss /\ displayed' = r.displayed /\ alerts' = r.alerts
    /\ UNCHANGED <<has_api_key, corpus_cache, phase, run_text, pending, otherVars>>

\* a launch button shown whether or not an analysis is already complete
LaunchButton_when_completed ==
    /\ AnalysisWidgets
    /\ uploaded_file # None
    /\ company_name # ""

\* the launch button is on screen
LaunchButton ==
    /\ AnalysisWidgets
    /\ uploaded_file # None
    /\ company_name # ""
    /\ ~session_state["analysis_completed"]

\* the user presses the launch button: the script runs down to the button and
\* extracts the text of the PDF
ClickAnalyze ==
    /\ LaunchButton
    /\ session_state' = PageTop(session_state, company_name)
    /\ run_text' = extract_text_from_pdf(uploaded_file)
    /\ phase' = "extracted"
    /\ displayed' = None
    /\ alerts' = IF uploaded_file.readable THEN <<>>
                 ELSE <<"Erreur lors de l'extraction du PDF">>
    /\ UNCHANGED <<company_name, uploaded_file, page, has_api_key, corpus_cache,
                   pending, otherVars>>

\* load_csrd_documents behind st.cache_data: run once, then the stored value
CachedLoad == IF corpus_cache.loaded THEN corpus_cache.ret
              ELSE load_csrd_documents(general_dir).ret

\* lines 512-529: without text the run goes on to the results block; without a
\* corpus it stops; otherwise the request to the completion service is sent
LoadCorpusAndRequest ==
    /\ phase = "extracted"
    /\ IF ~TextTruthy(run_text)
       THEN /\ phase' = "idle"
            /\ displayed' = Display(session_state)
            /\ UNCHANGED <<corpus_cache, pending, alerts>>
       ELSE /\ corpus_cache' = [loaded |-> TRUE, ret |-> CachedLoad]
            /\ IF Falsy(CachedLoad)
               THEN /\ phase' = "idle"
                    /\ alerts' = Append(alerts,
                           "Erreur lors du chargement des documents ESRS")
                    /\ UNCHANGED <<pending, displayed>>
               ELSE /\ phase' = "waiting"
                    /\ pending' =
                         [ text |-> run_text.text,
                           company_info |-> get_company_context(company_name),
                           csrd_regulation |->
                               get_regulatory_context(CachedLoad, "general") ]
                    /\ UNCHANGED <<displayed, alerts>>
    /\ run_text' = None
    /\ UNCHANGED <<session_state, company_name, uploaded_file, page, has_api_key,
                   otherVars>>

\* lines 525-533: the service answers, analyze_report returns, the result is
\* stored and st.rerun() runs the script again.  An exception out of
\* analyze_report would end the run with nothing stored.
ServiceAnswers(response) ==
    /\ phase = "waiting"
    /\ LET out == APP_analyze_report(pending.text, pending.company_info,
                                     pending.csrd_regulation, response)
           stored == Put(Put(session_state, "analysis_results", out.ret.val),
                         "analysis_completed", TRUE)
           r == Script(stored, has_api_key, page, company_name)
       IN  IF out.ret.ok
           THEN session_state' = r.ss /\ displayed' = r.displayed
                /\ alerts' = r.alerts
           ELSE UNCHANGED <<session_state, displayed, alerts>>
    /\ phase' = "idle"
    /\ pending' = None
    /\ UNCHANGED <<company_name, uploaded_file, page, has_api_key, corpus_cache,
                   run_text, otherVars>>

\* the user presses "Nouvelle analyse", shown under the results
ClickNewAnalysis ==
    /\ AnalysisWidgets
    /\ displayed # None
    /\ LET r == Script(reset_analysis_state(PageTop(session_state, company_name)),
                       has_api_key, page, company_name)
       IN  session_state' = r.ss /\ displayed' = r.displayed /\ alerts' = r.alerts
    /\ UNCHANGED <<company_name, uploaded_file, page, has_api_key, corpus_cache,
                   phase, run_text, pending, otherVars>>

Answer == \E response \in SessionResponses : ServiceAnswers(response)

Next ==
    \/ Rerun
    \/ ConfigureApiKey
    \/ \E n \in CompanyNames : EditCompanyName(n)
    \/ \E f \in UploadedFiles \cup {None} : ChangeFile(f)
    \/ \E p \in {pages[i] : i \in 1..Len(pages)} : ChangePage(p)
    \/ ClickAnalyze
    \/ LoadCorpusAndRequest
    \/ Answer
    \/ ClickNewAnalysis

Spec == Init /\ [][Next]_vars

\* a script run goes on to its next statement, and the call to the completion
\* service returns or raises (the client gives up after its timeout)
FairSpec == Spec /\ WF_vars(LoadCorpusAndRequest) /\ WF_vars(Answer)

(***************************************************************************)
(* Claims about the session                                                *)
(***************************************************************************)
\* the launch run holds a non-empty extracted text
LaunchedWithText == phase = "extracted" /\ TextTruthy(run_text)

\* analysis_completed is true with a non-null analysis_results
Completed ==
    /\ Get(session_state, "analysis_completed", FALSE)
    /\ Get(session_state, "analysis_results", None) # None

C9_MissingDirectoryProceeds ==
    /\ load_csrd_documents([state |-> "missing"]).ret = EmptyCorpus
    /\ DOMAIN EmptyCorpus = {"environmental", "social", "governance",
                             "cross_cutting", "annexes", "precisions"}
    /\ [][(LaunchedWithText /\ general_dir.state = "missing")
            => /\ corpus_cache'.loaded
               /\ corpus_cache'.ret = EmptyCorpus
               /\ phase' = "waiting"
               /\ pending' # None]_vars

\* a request is in flight although the corpus directory is missing
C9_Witness ==
    /\ general_dir.state = "missing"
    /\ phase = "waiting"
    /\ corpus_cache.loaded
    /\ corpus_cache.ret = EmptyCorpus
    /\ \A c \in DOMAIN corpus_cache.ret : corpus_cache.ret[c] = <<>>

\* C16: while the credential is missing, a page run fails to build the
\* analyzer and shows the initialisation error, no analyzer is stored in the
\* session, and as long as none is stored no analysis can be launched and no
\* request to the completion service is in flight.
C16_NoAnalyzerNoAnalysis ==
    /\ []( ~Rendered =>
             /\ ~LaunchButton
             /\ phase = "idle"
             /\ pending = None
             /\ ~Completed )
    /\ [][ (~Rendered /\ ~has_api_key')
             => /\ ~Rendered'
                /\ displayed' = None
                /\ alerts' = <<"Clé API manquante dans les secrets Streamlit",
                               "Erreur d'initialisation">> ]_vars
    /\ [][ ~has_api_key' => ~Rendered' ]_vars

\* a page run has failed for want of the credential
C16_Witness ==
    /\ ~has_api_key
    /\ ~Rendered
    /\ alerts # <<>>
    /\ phase = "idle"

\* C20: in every reachable session state, after any sequence of name edits,
\* file uploads, launches and "new analysis" resets, analysis_completed being
\* True implies that analysis_results is not None.
C20_CompletedImpliesResults ==
    ( /\ "analysis_completed" \in DOMAIN session_state
      /\ session_state["analysis_completed"] )
    => /\ "analysis_results" \in DOMAIN session_state
       /\ session_state["analysis_results"] # None

\* the analysis of a second company is complete, with the service's answer
C20_Witness ==
    /\ company_name = "Globex"
    /\ phase = "idle"
    /\ "analysis_completed" \in DOMAIN session_state
    /\ session_state["analysis_completed"]
    /\ session_state["analysis_results"] # None
    /\ session_state["analysis_results"] # APP_get_demo_analysis
    /\ displayed # None

\* analysis_completed is False and analysis_results is None
Cleared ==
    /\ Get(session_state, "analysis_completed", FALSE) = FALSE
    /\ Get(session_state, "analysis_results", None) = None

\* C21: a request to the completion service is in flight only when a file is
\* uploaded, the company name is non-empty, analysis_completed is False and
\* the extracted text is non-empty.  A launch never starts while an analysis
\* is complete and every request ends with analysis_completed True, so a
\* second request needs a reset first.  An empty or failed extraction ends
\* the run with analysis_completed False and analysis_results None.
C21_CallOnlyWhenReady ==
    /\ []( phase = "waiting" =>
             /\ uploaded_file # None
             /\ company_name # ""
             /\ Cleared
             /\ pending # None
             /\ pending.text # <<>> )
    /\ []( phase \in {"extracted", "waiting"} => Cleared )
    /\ [][ phase = "waiting" => (phase' = "idle" /\ Completed') ]_vars
    /\ [][ (phase = "extracted" /\ ~TextTruthy(run_text))
             => (phase' = "idle" /\ pending' = None /\ Cleared') ]_vars

\* the request of a launch is in flight
C21_Witness ==
    /\ phase = "waiting"
    /\ uploaded_file # None
    /\ company_name = "ACME"
    /\ pending.text = MakeText(3)
    /\ Cleared

\* session_state.current_company_info, None before the page first ran
StoredCompany == Get(session_state, "current_company_info", None)

\* a step of the analysis page in which the user changes the company name,
\* changes the uploaded file, or presses "new analysis"
ResetStep ==
    /\ Rendered /\ page = "Analyse CSRD" /\ page' = page
    /\ phase = "idle"
    /\ \/ company_name' # company_name
       \/ uploaded_file' # uploaded_file
       \/ (Completed /\ ~Completed')

\* C22, as stated: changing the company name, changing the file or pressing
\* "new analysis" sets analysis_completed to False and analysis_results to
\* None, leaves the analyzer and current_company_info unchanged, and nothing
\* is displayed afterwards.
C22_ResetLeavesCompanyInfo ==
    [][ ResetStep =>
          /\ Cleared'
          /\ session_state'["analyzer"] = session_state["analyzer"]
          /\ Get(session_state', "current_company_info", None) = StoredCompany
          /\ displayed' = None ]_vars

\* C22: changing the company name, changing the file or pressing "new
\* analysis" sets analysis_completed to False and analysis_results to None and
\* leaves the analyzer unchanged; current_company_info is unchanged by a file
\* change, by "new analysis" and by emptying the name, and becomes the context
\* of the new name when the name is changed to a non-empty one.  Results are
\* displayed only while an analysis is complete, so none is after a reset.
C22_ResetClearsResults ==
    /\ [][ ResetStep =>
             /\ Cleared'
             /\ session_state'["analyzer"] = session_state["analyzer"]
             /\ displayed' = None
             /\ Get(session_state', "current_company_info", None) =
                    IF company_name' # company_name /\ company_name' # ""
                    THEN get_company_context(company_name')
                    ELSE StoredCompany ]_vars
    /\ [](displayed # None => Completed)

\* a finished analysis was reset by typing another company name
C22_Witness ==
    /\ phase = "idle"
    /\ Rendered
    /\ Cleared
    /\ corpus_cache.loaded
    /\ corpus_cache.ret # None
    /\ company_name = "Globex"
    /\ StoredCompany = get_company_context("Globex")
    /\ displayed = None

\* C23: whenever results are displayed, the company shown with them is
\* current_company_info, which is not None and is the company the displayed
\* analysis was launched for: the results are stored by the step that ends a
\* launch, with current_company_info equal to the launch's company_info, and
\* while those results stay stored current_company_info does not change.
C23_DisplayedCompanyIsLaunched ==
    /\ []( displayed # None =>
             /\ Completed
             /\ displayed.analysis_results = session_state["analysis_results"]
             /\ displayed.company_info = StoredCompany
             /\ StoredCompany # None
             /\ StoredCompany.name # "" )
    /\ [][ phase = "waiting" =>
             /\ Completed'
             /\ Get(session_state', "current_company_info", None)
                    = pending.company_info
             /\ pending.company_info.name = company_name ]_vars
    /\ [][ (Completed /\ Completed')
             => Get(session_state', "current_company_info", None)
                    = StoredCompany ]_vars

\* results are on screen under the company they were launched for while the
\* name field is empty again, after a visit to another page
C23_Witness ==
    /\ displayed # None
    /\ page = "Analyse CSRD"
    /\ company_name = ""
    /\ displayed.company_info = get_company_context("ACME")

\* the characters of a text
CharsOf(text) == {text[k] : k \in 1..Len(text)}

====
